---- MODULE Spec2Model ----
(***************************************************************************)
(* A model of bulk_email_scheduler.py: the rate-limited, interruptible     *)
(* send scheduler.  Time is the local wall clock in seconds since local    *)
(* midnight of day 0.  A send-log record keeps the case-folded recipient   *)
(* and the UTC hour index of its timestamp: the code only ever reads the   *)
(* date prefix and the (year, month, day, hour) of a timestamp.            *)
(***************************************************************************)
EXTENDS Integers, Sequences, FiniteSets, TLC

\* ------------------------------------------------------------------ time
SecondsPerMinute == 60
MinutesPerHour == 60
HoursPerDay == 24
SecondsPerHour == SecondsPerMinute * MinutesPerHour
SecondsPerDay == SecondsPerHour * HoursPerDay

\* datetime.hour, datetime.date() of a local instant
HourOf(t) == (t \div SecondsPerHour) % HoursPerDay
DateOf(t) == t \div SecondsPerDay
\* datetime.datetime.combine(day, time(hour=h, minute=0, second=0))
Combine(day, h) == day * SecondsPerDay + h * SecondsPerHour

Min(a, b) == IF a <= b THEN a ELSE b

\* ------------------------------------------------------- configuration
\* The caps are environment settings; small values make the caps bind.
QUIET_START_HOUR == 20
QUIET_END_HOUR == 7
MAX_PER_DAY_TOTAL == 2
MAX_PER_HOUR_TOTAL == 1
MAX_PER_DAY_PER_DOMAIN == 1
PER_RUN_LIMIT == 2

\* ---------------------------------------------------- bounds of the model
\* The clock starts at 17:00 of local day 1 and the model follows it for
\* MaxHours hours, and through the jitter of a slot at the last full hour.
MaxHours == 14
StartTime == Combine(1, 17)
MaxTime == StartTime + MaxHours * SecondsPerHour + 45

\* Local time zones of the host, as whole hours east of UTC.
TimeZones == {0, -6}

\* Python's None, as a missing domain and as a missing address
None == "None"
NoAddr == <<>>

\* ------------------------------------------------------------ addresses
\* An address is <<local part, domain>>; "A" and "X" are the upper-case
\* spellings of "a" and "x".  The domain "" is that of a line "d@".
LowerStr(s) == IF s = "A" THEN "a" ELSE IF s = "X" THEN "x" ELSE s
\* str.lower() of an address
Lower(addr) == <<LowerStr(addr[1]), LowerStr(addr[2])>>
\* domain_of: addr.split("@")[-1].lower()
domain_of(addr) == LowerStr(addr[2])

Domains == {"x", "y", ""}
\* The recipient lists (emails.txt) a run may be started with: one with two
\* spellings of a recipient and two domains, one with lines that end in "@".
TwoSpellingsList == << <<"A", "x">>, <<"a", "X">>, <<"b", "x">>, <<"c", "y">> >>
EmptyDomainList == << <<"d", "">>, <<"e", "">>, <<"c", "y">> >>
EmailLists == {TwoSpellingsList, EmptyDomainList}

\* ------------------------------------------------------ history store
\* utc_now_iso(): the UTC hour index of the local instant t on a host whose
\* zone is tzh hours east of UTC.
utc_now_iso(t, tzh) == (t - tzh * SecondsPerHour) \div SecondsPerHour
\* A timestamp string of the log is kept as what the code reads of it.  One
\* that datetime.fromisoformat parses is its UTC hour index (>= 0).  One that
\* it cannot parse is kept as its first characters only: Malformed(d) begins
\* with the ISO date of day d, Malformed(NoDate) with no date (the empty field
\* of a line without ";", or any other text).
NoDate == -1
Malformed(d) == -(d + 2)
\* datetime.datetime.fromisoformat(ts) does not raise
Parses(ts) == ts >= 0
\* The date prefix (YYYY-MM-DD) of a timestamp string, as a day number.
TsDate(ts) == IF Parses(ts) THEN ts \div HoursPerDay ELSE -ts - 2

\* A variant that writes the line twice, used to test the effects of a send.
append_sent_twice(rows, email, t, tzh) ==
    Append(Append(rows, <<Lower(email), utc_now_iso(t, tzh)>>),
           <<Lower(email), utc_now_iso(t, tzh)>>)

\* append_sent: one line "email.lower();utc_now_iso()" at the end of the file
append_sent(rows, email, t, tzh) == Append(rows, <<Lower(email), utc_now_iso(t, tzh)>>)

\* sent_set: the set of logged (case-folded) addresses
sent_set(rows) == {rows[i][1] : i \in DOMAIN rows}

\* count_today: ts.startswith(datetime.date.today().isoformat()); the prefix of
\* the UTC timestamp is compared with the LOCAL date of the instant t.
count_today(rows, t) ==
    Cardinality({i \in DOMAIN rows : TsDate(rows[i][2]) = DateOf(t)})

\* count_today_domain, and the loop of main building used_domains_today
count_today_domain(rows, dom, t) ==
    Cardinality({i \in DOMAIN rows :
                    TsDate(rows[i][2]) = DateOf(t) /\ domain_of(rows[i][1]) = dom})
derive_domains(rows, t) == [d \in Domains |-> count_today_domain(rows, d, t)]

\* A variant that reads the UTC timestamp as if it were local time (no
\* astimezone), used to test the hourly-cap property.
count_this_hour_local(rows, t, tzh) ==
    Cardinality({i \in DOMAIN rows : rows[i][2] = t \div SecondsPerHour})

\* count_this_hour: (year, month, day, hour) of the timestamp in UTC equals
\* that of the current UTC instant; a timestamp that does not parse is not
\* within the hour (except Exception: return False)
count_this_hour(rows, t, tzh) ==
    Cardinality({i \in DOMAIN rows :
                    Parses(rows[i][2]) /\ rows[i][2] = utc_now_iso(t, tzh)})

\* ------------------------------------------------------------ scheduling
\* in_quiet_hours under the configured hours qs (QUIET_START_HOUR) and qe
\* (QUIET_END_HOUR)
in_quiet(t, qs, qe) == HourOf(t) >= qs \/ HourOf(t) < qe

\* in_quiet_hours
in_quiet_hours(t) == in_quiet(t, QUIET_START_HOUR, QUIET_END_HOUR)

\* A variant that advances the day only when the hour has passed (> for >=),
\* used to test the boundary property.
next_start_of_day_at_gt(hour, t) ==
    Combine(IF HourOf(t) > hour THEN DateOf(t) + 1 ELSE DateOf(t), hour)

\* next_start_of_day_at(hour), evaluated at the local instant t
next_start_of_day_at(hour, t) ==
    Combine(IF HourOf(t) >= hour THEN DateOf(t) + 1 ELSE DateOf(t), hour)

\* (now + timedelta(hours=1)).replace(minute=0, second=0, microsecond=0)
next_hour(t) == (t \div SecondsPerHour + 1) * SecondsPerHour

\* biased_delay_minutes: the values the sampler can return at the local
\* instant t, clamp(round(x), lo, hi) + randint(0, 5)
biased_delay_minutes(t) ==
    IF (9 <= HourOf(t) /\ HourOf(t) < 12) \/ (14 <= HourOf(t) /\ HourOf(t) < 17)
    THEN 22 .. (45 + 5)
    ELSE 55 .. (100 + 5)

\* The extreme samples of the delay, the ones a run of the model draws.
DelaySamples(t) ==
    LET S == biased_delay_minutes(t)
    IN  {d \in S : (\A e \in S : d <= e) \/ (\A e \in S : e <= d)}

\* random.randint(5, 45) seconds; a run of the model draws the two extremes
JitterSeconds == 5 .. 45
JitterSamples == {5, 45}

\* schedule_next under the configured hours qs and qe, with the jitter drawn
schedule_next_at(now_local, base_delay_min, jitter, qs, qe) ==
    LET target == now_local + base_delay_min * SecondsPerMinute
        day == IF HourOf(target) >= qs THEN DateOf(target) + 1 ELSE DateOf(target)
    IN  (IF in_quiet(target, qs, qe) THEN Combine(day, qe) ELSE target) + jitter

\* schedule_next(now_local, base_delay_min) with the jitter drawn
schedule_next(now_local, base_delay_min, jitter) ==
    schedule_next_at(now_local, base_delay_min, jitter, QUIET_START_HOUR, QUIET_END_HOUR)

\* ------------------------------------------------------------- selector
\* Python truth value of last_domain: None and "" are false
Truthy(s) == s /= None /\ s /= ""

\* A variant of the scan that forgets failed_once, used to test the exclusion
\* of failed recipients.
RECURSIVE scan_from_nofail(_, _, _, _, _, _, _)
scan_from_nofail(i, candidate_any, emails, already_sent, used_domains_today, last_domain, failed_once) ==
    IF i > Len(emails) THEN candidate_any
    ELSE LET low == Lower(emails[i])
             dom == domain_of(low)
             skip == low \in already_sent \/ used_domains_today[dom] >= MAX_PER_DAY_PER_DOMAIN
         IN  IF ~skip /\ Truthy(last_domain) /\ dom /= last_domain
             THEN low
             ELSE scan_from_nofail(i + 1,
                      IF ~skip /\ candidate_any = NoAddr THEN low ELSE candidate_any,
                      emails, already_sent, used_domains_today, last_domain, failed_once)

\* A variant of the scan that looks the address up as spelled in the list
\* (no lower()), used to test the exclusion of logged recipients.
RECURSIVE scan_from_raw(_, _, _, _, _, _, _)
scan_from_raw(i, candidate_any, emails, already_sent, used_domains_today, last_domain, failed_once) ==
    IF i > Len(emails) THEN candidate_any
    ELSE LET low == Lower(emails[i])
             dom == domain_of(low)
             skip == \/ emails[i] \in already_sent \/ emails[i] \in failed_once
                     \/ used_domains_today[dom] >= MAX_PER_DAY_PER_DOMAIN
         IN  IF ~skip /\ Truthy(last_domain) /\ dom /= last_domain
             THEN low
             ELSE scan_from_raw(i + 1,
                      IF ~skip /\ candidate_any = NoAddr THEN low ELSE candidate_any,
                      emails, already_sent, used_domains_today, last_domain, failed_once)

RECURSIVE scan_from(_, _, _, _, _, _, _)
\* The for-loop of first_unsent_rotating from index i on, candidate_any so far
scan_from(i, candidate_any, emails, already_sent, used_domains_today, last_domain, failed_once) ==
    IF i > Len(emails) THEN candidate_any
    ELSE LET low == Lower(emails[i])
             dom == domain_of(low)
         IN  IF low \in already_sent \/ low \in failed_once
             THEN scan_from(i + 1, candidate_any, emails, already_sent,
                            used_domains_today, last_domain, failed_once)
             ELSE IF used_domains_today[dom] >= MAX_PER_DAY_PER_DOMAIN
             THEN scan_from(i + 1, candidate_any, emails, already_sent,
                            used_domains_today, last_domain, failed_once)
             ELSE IF Truthy(last_domain) /\ dom /= last_domain
             THEN low
             ELSE scan_from(i + 1, IF candidate_any = NoAddr THEN low ELSE candidate_any,
                            emails, already_sent, used_domains_today, last_domain,
                            failed_once)

\* first_unsent_rotating: the chosen case-folded address, or NoAddr for None
first_unsent_rotating(emails, already_sent, used_domains_today, last_domain, failed_once) ==
    scan_from(1, NoAddr, emails, already_sent, used_domains_today, last_domain, failed_once)

\* ---------------------------------------------------------------- state
VARIABLES
    now,                \* the local wall clock, in seconds
    tz,                 \* the host's zone, hours east of UTC
    HAS_MSVCRT,         \* whether the operator's keys can be read
    SMTP_PASS,          \* whether the transport credential is configured
    limit,              \* the per-run cap main() reads from PER_RUN_LIMIT
    emails,             \* the recipient list, as loaded
    sent_log,           \* the History Store: the lines of SENT_LOG
    pc,                 \* where main() stands
    target,             \* the instant wait_until waits for
    already,            \* main's set of logged addresses
    today_total, hour_total, used_domains_today,
    sent_count, last_domain, failed_once,
    addr,               \* the address chosen in this iteration
    bcc_on,             \* State.bcc_on
    reason,             \* why the run ended
    attempts,           \* this run's send attempts, <<address, succeeded>>
    quietSend,          \* a list send was attempted in the quiet window
    prevFailed,         \* who failed in the previous run, while the log is as it left it
    waitKey,            \* the key _hotkey_loop has just read in a wait slice
    pure                \* inputs and result of a pure function under check

fixed == <<tz, HAS_MSVCRT, SMTP_PASS, limit, emails, pure>>
fx == <<fixed, prevFailed>>
counters == <<today_total, hour_total, used_domains_today>>
locals == <<already, sent_count, last_domain, failed_once, addr>>
ghosts == <<reason, attempts, quietSend>>
vars == <<now, fixed, sent_log, pc, target, counters, locals, bcc_on, ghosts, waitKey, prevFailed>>

Keys == {"q", "t", "o"}
WaitPcs == {"wait_window", "wait_hour", "wait_sched"}
ConnPcs == {"conn_start", "conn_hour", "conn_send", "conn_sched"}

\* A process that is not running holds no state of its own.
Stopped ==
    /\ pc = "off"
    /\ target = 0
    /\ already = {}
    /\ today_total = 0 /\ hour_total = 0
    /\ used_domains_today = [d \in Domains |-> 0]
    /\ sent_count = 0 /\ last_domain = None /\ failed_once = {}
    /\ addr = NoAddr
    /\ bcc_on = TRUE
    /\ reason = None /\ attempts = <<>> /\ quietSend = FALSE /\ waitKey = None

\* The state before the first run, in an environment with the credential set
\* (SMTP_PASS) or not and with the per-run cap lim (PER_RUN_LIMIT)
InitEnv(pass, lim) ==
    /\ now = StartTime
    /\ tz \in TimeZones
    /\ HAS_MSVCRT \in BOOLEAN
    /\ SMTP_PASS = pass
    /\ limit = lim
    /\ emails \in EmailLists
    /\ sent_log = <<>>
    /\ pure = <<>>
    /\ prevFailed = {}
    /\ Stopped

Init == InitEnv(TRUE, PER_RUN_LIMIT)

\* -------------------------------------------------------------- actions
\* main(), lines 428-443: read the log, derive the counters, check the daily cap
Start ==
    /\ pc = "off"
    /\ already' = sent_set(sent_log)
    /\ today_total' = count_today(sent_log, now)
    /\ hour_total' = count_this_hour(sent_log, now, tz)
    /\ used_domains_today' = derive_domains(sent_log, now)
    /\ IF today_total' >= MAX_PER_DAY_TOTAL
       THEN pc' = "done" /\ reason' = "cap"
       ELSE pc' = "window" /\ reason' = None
    /\ waitKey' = None
    /\ UNCHANGED <<now, fx, sent_log, target, sent_count, last_domain,
                   failed_once, addr, bcc_on, attempts, quietSend>>

\* ensure_business_window: in quiet hours, wait for the next QUIET_END_HOUR:00
ensure_business_window ==
    /\ pc = "window"
    /\ IF in_quiet_hours(now)
       THEN /\ target' = next_start_of_day_at(QUIET_END_HOUR, now)
            /\ pc' = "wait_window"
       ELSE /\ pc' = "conn_start"
            /\ UNCHANGED target
    /\ UNCHANGED <<now, fx, sent_log, counters, locals, bcc_on, ghosts>>
    /\ waitKey' = None

\* Where main() goes on when wait_until returns True
AfterWait(p) ==
    IF p = "wait_window" THEN "conn_start"
    ELSE IF p = "wait_hour" THEN "conn_hour"
    ELSE "conn_sched"

\* A variant of the test of wait_until that wants the target passed (> for
\* >=), used to test termination.
WaitReturn_strict ==
    /\ pc \in WaitPcs
    /\ now > target
    /\ pc' = AfterWait(pc)
    /\ target' = 0
    /\ UNCHANGED <<now, fx, sent_log, counters, locals, bcc_on, ghosts>>
    /\ waitKey' = None

\* wait_until: now >= target_local, return True
WaitReturn ==
    /\ pc \in WaitPcs
    /\ now >= target
    /\ pc' = AfterWait(pc)
    /\ target' = 0
    /\ UNCHANGED <<now, fx, sent_log, counters, locals, bcc_on, ghosts>>
    /\ waitKey' = None

\* wait_until: _hotkey_loop reads a key; "q" makes wait_until return False,
\* on which ensure_business_window exits and the loop of main breaks
WaitKey ==
    /\ pc \in WaitPcs
    /\ now < target
    /\ HAS_MSVCRT
    /\ \E ch \in Keys :
        /\ IF ch = "q"
           THEN pc' = "done" /\ reason' = "aborted"
           ELSE UNCHANGED <<pc, reason>>
        /\ bcc_on' = IF ch = "o" THEN ~bcc_on ELSE bcc_on
        /\ waitKey' = ch
    /\ UNCHANGED <<now, fx, sent_log, target, counters, locals, attempts, quietSend>>

\* wait_until: no key pending, time.sleep(min(remaining, 15.0)); the slices up
\* to the next full hour (or the target) are one step
WaitSleep ==
    /\ pc \in WaitPcs
    /\ now < target
    /\ now' = Min(target, next_hour(now))
    /\ now' <= MaxTime
    /\ UNCHANGED <<fx, sent_log, pc, target, counters, locals, bcc_on, ghosts>>
    /\ waitKey' = None

\* has_connectivity() answers True at lines 448, 472, 495, 536 or inside
\* wait_for_connectivity.  After the hourly-cap wait (lines 474-475) the log is
\* read again and hour_total alone is derived again.
ConnUp ==
    /\ pc \in ConnPcs
    /\ pc' = IF pc = "conn_send" THEN "send" ELSE "loop"
    /\ hour_total' = IF pc = "conn_hour"
                     THEN count_this_hour(sent_log, now, tz) ELSE hour_total
    /\ IF pc = "conn_start"
       THEN sent_count' = 0 /\ last_domain' = None /\ failed_once' = {}
       ELSE UNCHANGED <<sent_count, last_domain, failed_once>>
    /\ waitKey' = None
    /\ UNCHANGED <<now, fx, sent_log, target, today_total, used_domains_today,
                   already, addr, bcc_on, ghosts>>
    /\ waitKey' = None

\* has_connectivity() answers False: one round of wait_for_connectivity, which
\* polls the keys, drops the answer of _hotkey_loop and sleeps; the outage may
\* last into the next hour
ConnDown ==
    /\ pc \in ConnPcs
    /\ \E ch \in (IF HAS_MSVCRT THEN Keys \cup {None} ELSE {None}) :
        /\ waitKey' = ch
        /\ bcc_on' = IF ch = "o" THEN ~bcc_on ELSE bcc_on
    /\ \E later \in BOOLEAN :
        now' = IF later THEN next_hour(now) ELSE now
    /\ now' <= MaxTime
    /\ UNCHANGED <<fx, sent_log, pc, target, counters, locals, reason,
                   attempts, quietSend>>

\* A variant of the loop condition that tests the daily cap only, used to test
\* the per-run cap.
loop_condition_nolimit(sent, lim, total) == total < MAX_PER_DAY_TOTAL

\* The condition of the while loop (line 458)
loop_condition(sent, lim, total) == sent < lim /\ total < MAX_PER_DAY_TOTAL

\* The head of the while loop, the hourly-cap check and the selection
\* (lines 458-490)
LoopHead ==
    /\ pc = "loop"
    /\ IF ~loop_condition(sent_count, limit, today_total)
       THEN /\ pc' = "done"
            /\ reason' = IF sent_count >= limit THEN "limit" ELSE "cap"
            /\ UNCHANGED <<target, addr>>
       ELSE IF hour_total >= MAX_PER_HOUR_TOTAL
       THEN /\ target' = next_hour(now)
            /\ pc' = "wait_hour"
            /\ UNCHANGED <<reason, addr>>
       ELSE LET a == first_unsent_rotating(emails, already, used_domains_today,
                                           last_domain, failed_once)
            IN  IF a = NoAddr
                THEN pc' = "done" /\ reason' = "exhausted" /\ UNCHANGED <<target, addr>>
                ELSE pc' = "ready" /\ addr' = a /\ UNCHANGED <<target, reason>>
    /\ waitKey' = None
    /\ UNCHANGED <<now, fx, sent_log, counters, already, sent_count, last_domain,
                   failed_once, bcc_on, attempts, quietSend>>

\* _hotkey_loop("[READY] ...") at line 492: "q" breaks the loop, no pending key
\* goes on to send
Ready ==
    /\ pc = "ready"
    /\ \E ch \in (IF HAS_MSVCRT THEN Keys \cup {None} ELSE {None}) :
        /\ IF ch = "q" THEN pc' = "done" /\ reason' = "aborted"
           ELSE IF ch = None THEN pc' = "conn_send" /\ UNCHANGED reason
           ELSE UNCHANGED <<pc, reason>>
        /\ bcc_on' = IF ch = "o" THEN ~bcc_on ELSE bcc_on
    /\ waitKey' = None
    /\ UNCHANGED <<now, fx, sent_log, target, counters, locals, attempts,
                   quietSend>>

\* smtp_send_one raises when SMTP_PASS is not set, and on any transport error
SendOutcomes == IF SMTP_PASS THEN BOOLEAN ELSE {FALSE}

\* lines 500-518: the send attempt with its success and failure branches
Send ==
    /\ pc = "send"
    /\ \E ok \in SendOutcomes :
        /\ attempts' = Append(attempts, <<addr, ok>>)
        /\ IF ok
           THEN /\ sent_log' = append_sent(sent_log, addr, now, tz)
                /\ already' = already \cup {Lower(addr)}
                /\ used_domains_today' =
                       [used_domains_today EXCEPT ![domain_of(addr)] = @ + 1]
                /\ last_domain' = domain_of(addr)
                /\ sent_count' = sent_count + 1
                /\ today_total' = today_total + 1
                /\ hour_total' = hour_total + 1
                /\ prevFailed' = {}
                /\ UNCHANGED failed_once
           ELSE /\ failed_once' = failed_once \cup {Lower(addr)}
                /\ last_domain' = domain_of(addr)
                /\ UNCHANGED <<sent_log, already, counters, sent_count, prevFailed>>
    /\ quietSend' = (quietSend \/ in_quiet_hours(now))
    /\ pc' = "after"
    /\ waitKey' = None
    /\ UNCHANGED <<now, fixed, target, addr, bcc_on, reason>>

\* lines 520-534: the daily cap again, then the delay and the next slot; both
\* branches of the try statement arrive here
Plan ==
    /\ pc = "after"
    /\ IF today_total >= MAX_PER_DAY_TOTAL
       THEN pc' = "done" /\ reason' = "cap" /\ UNCHANGED target
       ELSE /\ \E base_delay \in DelaySamples(now), jitter \in JitterSamples :
                target' = schedule_next(now, base_delay, jitter)
            /\ pc' = "wait_sched"
            /\ UNCHANGED reason
    /\ addr' = NoAddr
    /\ waitKey' = None
    /\ UNCHANGED <<now, fx, sent_log, counters, already, sent_count, last_domain,
                   failed_once, bcc_on, attempts, quietSend>>

\* The process ends (line 541, or it is stopped from outside) and its memory
\* is gone; the log stays.
Exit ==
    /\ pc /= "off"
    /\ pc' = "off"
    /\ target' = 0
    /\ already' = {}
    /\ today_total' = 0 /\ hour_total' = 0
    /\ used_domains_today' = [d \in Domains |-> 0]
    /\ sent_count' = 0 /\ last_domain' = None /\ failed_once' = {}
    /\ addr' = NoAddr
    /\ bcc_on' = TRUE
    /\ reason' = None /\ attempts' = <<>> /\ quietSend' = FALSE /\ waitKey' = None
    /\ prevFailed' = failed_once
    /\ UNCHANGED <<now, fixed, sent_log>>

\* Time passes while no process runs.
Idle ==
    /\ pc = "off"
    /\ now' = next_hour(now)
    /\ now' <= MaxTime
    /\ UNCHANGED <<fx, sent_log, pc, target, counters, locals, bcc_on, ghosts>>
    /\ waitKey' = None

Next ==
    \/ Start \/ ensure_business_window
    \/ WaitReturn \/ WaitKey \/ WaitSleep
    \/ ConnUp \/ ConnDown
    \/ LoopHead \/ Ready \/ Send \/ Plan
    \/ Exit \/ Idle

Spec == Init /\ [][Next]_vars

\* The runs of a host whose local time is UTC: the date prefix of a logged
\* timestamp is then the local date of the send.
InitUtc == Init /\ tz = 0

SpecUtc == InitUtc /\ [][Next]_vars

\* The runs of a host on which SMTP_PASS is not set.
InitNoPass == InitEnv(FALSE, PER_RUN_LIMIT)

SpecNoPass == InitNoPass /\ [][Next]_vars

\* The runs of a process that keeps executing, on a host (on UTC, with a
\* console) whose clock keeps advancing and whose network comes back whenever
\* it is lost: main() takes its next step, a sleeping wait_until wakes up, and
\* has_connectivity() answers True in the end.  The operator's keys, and the end
\* of the process from outside, may or may not come.  The list is the one with
\* two spellings of a recipient.
InitLive == Init /\ tz = 0 /\ HAS_MSVCRT /\ emails = TwoSpellingsList

Fairness ==
    /\ WF_vars(ensure_business_window)
    /\ WF_vars(WaitReturn)
    /\ WF_vars(WaitSleep)
    /\ WF_vars(ConnUp)
    /\ WF_vars(LoopHead)
    /\ WF_vars(Ready /\ pc' /= "ready")
    /\ WF_vars(Send)
    /\ WF_vars(Plan)

SpecLive == InitLive /\ [][Next]_vars /\ Fairness

\* The runs of a host whose per-run cap is below the daily cap.
InitTight == InitEnv(TRUE, MAX_PER_DAY_TOTAL - 1)

SpecTight == InitTight /\ [][Next]_vars

\* ---------------------------------- the counters of a log as found
\* main() is started once on a log of up to MaxRows lines written earlier,
\* some with a timestamp field that does not parse.
MaxRows == 2
HistInstants == {Combine(1, 17), Combine(1, 23), Combine(2, 8)}
HistStamps ==
    {utc_now_iso(t, tzh) : t \in HistInstants, tzh \in TimeZones}
        \cup {Malformed(1), Malformed(2), Malformed(NoDate)}
HistRows == {<<a, ts>> : a \in { <<"a", "x">>, <<"c", "y">> }, ts \in HistStamps}
Histories == UNION {[1 .. n -> HistRows] : n \in 0 .. MaxRows}

InitHist ==
    /\ now \in HistInstants
    /\ tz \in TimeZones
    /\ HAS_MSVCRT = FALSE
    /\ SMTP_PASS = TRUE
    /\ limit = PER_RUN_LIMIT
    /\ emails \in EmailLists
    /\ sent_log \in Histories
    /\ pure = <<>>
    /\ prevFailed = {}
    /\ Stopped

NextHist == Start

SpecHist == InitHist /\ [][NextHist]_vars

\* ------------------------------------------ a second writer of the log
\* Another instance of the scheduler appends to the same SENT_LOG while this
\* run waits for the next hour: at most MaxExternal records, to recipients of
\* its own list.
MaxExternal == 1
ExternalAddrs == { <<"z", "x">>, <<"z", "y">> }
ExternalRows == {i \in DOMAIN sent_log : sent_log[i][1] \in ExternalAddrs}

ExternalAppend ==
    /\ pc = "wait_hour"
    /\ Cardinality(ExternalRows) < MaxExternal
    /\ \E a \in ExternalAddrs : sent_log' = append_sent(sent_log, a, now, tz)
    /\ waitKey' = None
    /\ UNCHANGED <<now, fx, pc, target, counters, locals, bcc_on, ghosts>>

\* The two instances run on one host, on UTC, with a console whose keys can be
\* read.
InitExt == Init /\ tz = 0 /\ HAS_MSVCRT

NextExt == Next \/ ExternalAppend

SpecExt == InitExt /\ [][NextExt]_vars

\* ------------------------------------------- the selector on its own
\* first_unsent_rotating applied to every small input: lists of up to
\* SelMaxLen addresses, at most one logged and one failed address.
SelMaxLen == 3
AddrPool == { <<"A", "x">>, <<"b", "x">>, <<"c", "y">>, <<"d", "">> }
LowPool == {Lower(a) : a \in AddrPool}
SelLists == UNION {[1 .. n -> AddrPool] : n \in 0 .. SelMaxLen}
SmallSets == {S \in SUBSET LowPool : Cardinality(S) <= 1}

InitSel ==
    /\ now = StartTime
    /\ tz = 0
    /\ HAS_MSVCRT = FALSE
    /\ SMTP_PASS = TRUE
    /\ limit = PER_RUN_LIMIT
    /\ emails = <<>>
    /\ sent_log = <<>>
    /\ prevFailed = {}
    /\ Stopped
    /\ pure \in [emails : SelLists, already_sent : SmallSets, failed_once : SmallSets,
                 used_domains_today : [Domains -> 0 .. MAX_PER_DAY_PER_DOMAIN],
                 last_domain : Domains \cup {None}, called : {FALSE}, result : {NoAddr}]

\* One call of the selector on the drawn input
CallSelector ==
    /\ ~pure.called
    /\ pure' = [pure EXCEPT
                  !.called = TRUE,
                  !.result = first_unsent_rotating(pure.emails, pure.already_sent,
                                 pure.used_domains_today, pure.last_domain,
                                 pure.failed_once)]
    /\ UNCHANGED <<now, tz, HAS_MSVCRT, SMTP_PASS, limit, emails, sent_log, pc, target,
                   counters, locals, bcc_on, ghosts, waitKey, prevFailed>>

NextSel == CallSelector

SpecSel == InitSel /\ [][NextSel]_vars

\* ------------------------------- the quiet-window policy on its own
\* next_start_of_day_at(QUIET_END_HOUR) and schedule_next applied to instants
\* of one day, three in every hour, under configured quiet hours.
SecondOffsets == {0, 29 * SecondsPerMinute + 30, SecondsPerHour - 1}
Instants == {Combine(1, h) + s : h \in 0 .. HoursPerDay - 1, s \in SecondOffsets}
ConfigHours == 0 .. HoursPerDay - 1
QuietHourSamples == {0, 7, 20, 23}

BoundaryInputs ==
    [op : {"boundary"}, t : Instants, qs : ConfigHours, qe : ConfigHours,
     delay : {0}, jitter : {0}, called : {FALSE}, result : {0}]
SlotInputs ==
    {r \in [op : {"schedule"}, t : Instants, qs : QuietHourSamples,
            qe : QuietHourSamples, delay : 22 .. 105, jitter : JitterSamples,
            called : {FALSE}, result : {0}] :
        r.delay \in biased_delay_minutes(r.t)}

InitSched ==
    /\ now = StartTime
    /\ tz = 0
    /\ HAS_MSVCRT = FALSE
    /\ SMTP_PASS = TRUE
    /\ limit = PER_RUN_LIMIT
    /\ emails = <<>>
    /\ sent_log = <<>>
    /\ prevFailed = {}
    /\ Stopped
    /\ pure \in BoundaryInputs \cup SlotInputs

\* One call of next_start_of_day_at(QUIET_END_HOUR) at the instant drawn
CallBoundary ==
    /\ pure.op = "boundary" /\ ~pure.called
    /\ pure' = [pure EXCEPT !.called = TRUE,
                            !.result = next_start_of_day_at(pure.qe, pure.t)]
    /\ UNCHANGED <<now, tz, HAS_MSVCRT, SMTP_PASS, limit, emails, sent_log, pc, target,
                   counters, locals, bcc_on, ghosts, waitKey, prevFailed>>

\* One call of schedule_next at the instant drawn, with the delay sampled
CallSchedule ==
    /\ pure.op = "schedule" /\ ~pure.called
    /\ pure' = [pure EXCEPT !.called = TRUE,
                            !.result = schedule_next_at(pure.t, pure.delay,
                                           pure.jitter, pure.qs, pure.qe)]
    /\ UNCHANGED <<now, tz, HAS_MSVCRT, SMTP_PASS, limit, emails, sent_log, pc, target,
                   counters, locals, bcc_on, ghosts, waitKey, prevFailed>>

NextSched == CallBoundary \/ CallSchedule

SpecSched == InitSched /\ [][NextSched]_vars

\* ------------------------------------------------------------ properties
\* The last send attempt of this run, and whether it succeeded
LastAttempt == attempts[Len(attempts)]
LastSucceeded == attempts /= <<>> /\ LastAttempt[2]
\* main() holds a chosen address and is about to send to it
AboutToSend == pc \in {"ready", "conn_send", "send"}
\* The local calendar date of a logged timestamp
LocalDateOfTs(ts) == (ts + tz) \div HoursPerDay
\* The positions of the list that are eligible: not logged, not failed in this
\* run, domain under its daily cap
EligibleNow ==
    {i \in DOMAIN emails :
        /\ Lower(emails[i]) \notin already \cup failed_once
        /\ used_domains_today[domain_of(emails[i])] < MAX_PER_DAY_PER_DOMAIN}

\* C1: with quietStartHour > quietEndHour, no send to a list recipient is ever
\* attempted at a local instant whose hour lies in the quiet window.
C1_NoListSendInQuietWindow ==
    QUIET_START_HOUR > QUIET_END_HOUR => ~quietSend

\* C2: the number of log records dated on any one calendar date never exceeds
\* the daily cap (the log starts empty), and no send is attempted while
\* today_total >= daily cap.
C2_DailyCapRespected ==
    /\ \A i \in DOMAIN sent_log :
          Cardinality({j \in DOMAIN sent_log :
              LocalDateOfTs(sent_log[j][2]) = LocalDateOfTs(sent_log[i][2])})
          <= MAX_PER_DAY_TOTAL
    /\ AboutToSend => today_total < MAX_PER_DAY_TOTAL

\* C3: no clock hour ever holds more than hourly_cap log records; a send is
\* attempted only when hour_total < hourly_cap, and hour_total never
\* undercounts the records of the current clock hour, so a cap that is reached
\* holds the loop until the next clock hour.
C3_HourlyCapRespected ==
    /\ \A i \in DOMAIN sent_log :
          Cardinality({j \in DOMAIN sent_log : sent_log[j][2] = sent_log[i][2]})
          <= MAX_PER_HOUR_TOTAL
    /\ AboutToSend => hour_total < MAX_PER_HOUR_TOTAL
    /\ pc \notin {"off", "done"} => hour_total >= count_this_hour(sent_log, now, tz)

\* C3 witness: after a successful send of this run reached the hourly cap, the
\* run has waited for the next hour and is about to send again.
C3_Witness ==
    /\ pc = "send" /\ LastSucceeded
    /\ hour_total < MAX_PER_HOUR_TOTAL
    /\ Len(sent_log) >= MAX_PER_HOUR_TOTAL

\* C4: for every domain, the log never holds more than domain_cap_per_day
\* records of one calendar date for that domain.
C4_DomainCapRespected ==
    \A i \in DOMAIN sent_log :
        Cardinality({j \in DOMAIN sent_log :
            /\ LocalDateOfTs(sent_log[j][2]) = LocalDateOfTs(sent_log[i][2])
            /\ domain_of(sent_log[j][1]) = domain_of(sent_log[i][1])})
        <= MAX_PER_DAY_PER_DOMAIN

\* C5: a wait for a scheduled slot is entered only after a successful send,
\* never after a failed attempt.
C5_NoScheduledWaitAfterFailure ==
    pc = "wait_sched" => LastSucceeded

\* C6: a quit key read in any wait slice takes the run to the terminal aborted
\* state.
C6_QuitAbortsEveryWait ==
    waitKey = "q" => (pc = "done" /\ reason = "aborted")

\* C7: after every attempt last_domain is the domain of that attempt, and the
\* next selection picks another domain whenever an eligible recipient of
\* another domain exists.
C7_RotatesWhenPossible ==
    attempts /= <<>> =>
        /\ last_domain = domain_of(LastAttempt[1])
        /\ (pc = "ready"
            /\ \E i \in EligibleNow : domain_of(emails[i]) /= domain_of(LastAttempt[1]))
           => domain_of(addr) /= domain_of(LastAttempt[1])

\* C8: a recipient whose attempt failed is not attempted again in that run and
\* is not written to the log; failed_once holds exactly this run's failures, so
\* it is empty when a run starts.
C8_FailedExcludedThisRunOnly ==
    /\ \A i, j \in DOMAIN attempts :
          (i < j /\ ~attempts[i][2]) => attempts[j][1] /= attempts[i][1]
    /\ AboutToSend => addr \notin failed_once
    /\ failed_once = {attempts[i][1] : i \in {k \in DOMAIN attempts : ~attempts[k][2]}}
    /\ \A i \in DOMAIN attempts : ~attempts[i][2] => attempts[i][1] \notin sent_set(sent_log)

\* C8 witness: a recipient that failed in the previous run was chosen again in
\* this run against the unchanged log, failed again, and another recipient is
\* now about to be sent to.
C8_Witness ==
    /\ pc = "send"
    /\ attempts /= <<>> /\ ~attempts[1][2]
    /\ attempts[1][1] \in prevFailed
    /\ addr /= attempts[1][1]

\* C9: the log never holds two records of the same case-folded recipient, and
\* no logged recipient is chosen again, in any run.
C9_NoSecondSend ==
    /\ \A i, j \in DOMAIN sent_log :
          Lower(sent_log[i][1]) = Lower(sent_log[j][1]) => i = j
    /\ AboutToSend => Lower(addr) \notin sent_set(sent_log)

\* C9 witness: a restarted run, whose list spells a logged recipient in
\* another case, is about to make its first send.
C9_Witness ==
    /\ pc = "send" /\ attempts = <<>>
    /\ \E i \in DOMAIN emails :
          emails[i] /= Lower(emails[i]) /\ Lower(emails[i]) \in sent_set(sent_log)

\* The positions of the drawn list that are eligible for the selector
SelEligible ==
    {i \in DOMAIN pure.emails :
        /\ Lower(pure.emails[i]) \notin pure.already_sent \cup pure.failed_once
        /\ pure.used_domains_today[domain_of(pure.emails[i])] < MAX_PER_DAY_PER_DOMAIN}
\* Those of them whose domain differs from a last domain that is set
SelPreferred ==
    {i \in SelEligible :
        pure.last_domain /= None /\ domain_of(pure.emails[i]) /= pure.last_domain}
FirstOf(S) == CHOOSE i \in S : \A j \in S : i <= j

\* C10: the selector returns the first eligible address whose domain differs
\* from the last domain when that is set, else the first eligible address, and
\* reports exhaustion exactly when no address is eligible.
C10_SelectorContract ==
    pure.called =>
        pure.result = IF SelPreferred /= {} THEN Lower(pure.emails[FirstOf(SelPreferred)])
                      ELSE IF SelEligible /= {} THEN Lower(pure.emails[FirstOf(SelEligible)])
                      ELSE NoAddr

\* The result of next_start_of_day_at(QUIET_END_HOUR) is strictly after the
\* instant, at the hour QUIET_END_HOUR, and outside the quiet window
BoundaryOk ==
    /\ pure.result > pure.t
    /\ HourOf(pure.result) = pure.qe
    /\ ~in_quiet(pure.result, pure.qs, pure.qe)

\* C11 as stated: for every instant and every configured pair of hours in
\* 0..23, the next active boundary is strictly after the instant, has the hour
\* quietEndHour and is not inside the quiet window.
C11_BoundaryEveryPair ==
    (pure.op = "boundary" /\ pure.called) => BoundaryOk

\* C11 amended: the same for every configured pair with quietStartHour >
\* quietEndHour (a window that spans midnight).
C11_BoundaryActive ==
    (pure.op = "boundary" /\ pure.called /\ pure.qs > pure.qe) => BoundaryOk

\* C11 witness: a call late in the quiet window of a pair that spans midnight,
\* answered with the boundary on the following day.
C11_Witness ==
    /\ pure.op = "boundary" /\ pure.called /\ pure.qs > pure.qe
    /\ HourOf(pure.t) >= pure.qs
    /\ DateOf(pure.result) = DateOf(pure.t) + 1

\* The candidate instant of a call of schedule_next: now plus the sampled delay
SlotCandidate == pure.t + pure.delay * SecondsPerMinute

\* C19: for every current instant and every sampled delay, with quietStartHour
\* > quietEndHour, the target returned after the 5-45 second jitter is later
\* than the current instant and not inside the quiet window; when the candidate
\* is in the quiet window the target is the next quietEndHour:00:00 after the
\* candidate plus the jitter.
C19_SlotOutsideQuietWindow ==
    (pure.op = "schedule" /\ pure.called /\ pure.qs > pure.qe) =>
        /\ pure.result > pure.t
        /\ ~in_quiet(pure.result, pure.qs, pure.qe)
        /\ in_quiet(SlotCandidate, pure.qs, pure.qe) =>
               pure.result = next_start_of_day_at(pure.qe, SlotCandidate) + pure.jitter

\* C12: when an hourly-cap wait completes, today_total, hour_total and the
\* per-domain counts are derived again from the log before the next selection,
\* so that no counter is below what the log holds, records appended by another
\* writer during the wait included.
C12_CountersRederivedAfterHourlyWait ==
    [][(pc = "conn_hour" /\ pc' = "loop") =>
          /\ hour_total' = count_this_hour(sent_log', now', tz')
          /\ today_total' >= count_today(sent_log', now')
          /\ \A d \in Domains :
                used_domains_today'[d] >= count_today_domain(sent_log', d, now')]_vars

\* The records of the log dated on the current local calendar date
RowsOfToday == {i \in DOMAIN sent_log : LocalDateOfTs(sent_log[i][2]) = DateOf(now)}
\* main() stands at a daily-cap check (line 458 or line 520)
AtCapCheck == pc \in {"loop", "after"}

\* C13: in a run that continues across a local day boundary, at every cap check
\* today_total and every per-domain count hold only the records dated on the
\* current calendar date, so the previous day's sends do not count against the
\* new day's caps.
C13_DayCountersFollowTheDate ==
    AtCapCheck =>
        /\ today_total = Cardinality(RowsOfToday)
        /\ \A d \in Domains :
              used_domains_today[d] =
                  Cardinality({i \in RowsOfToday : domain_of(sent_log[i][1]) = d})

\* C14: if the transport credential is not configured, the failure is fatal at
\* startup, before the loop begins: no recipient is selected, no recipient is
\* added to failed_once, and no scheduled wait is entered.
C14_MissingCredentialFatalAtStartup ==
    ~SMTP_PASS =>
        /\ addr = NoAddr /\ attempts = <<>>
        /\ failed_once = {}
        /\ pc /= "wait_sched"

\* The lines of the log whose timestamp parses
ParsedRow(r) == Parses(r[2])
ParsedRows == SelectSeq(sent_log, ParsedRow)

\* C15: a record whose timestamp string cannot be parsed contributes zero to
\* today_total, to hour_total and to every per-domain count, for every history
\* and every current instant: the counters main() derives are those of the log
\* without such records.
C15_MalformedTimestampCountsNowhere ==
    pc /= "off" =>
        /\ today_total = count_today(ParsedRows, now)
        /\ hour_total = count_this_hour(ParsedRows, now, tz)
        /\ used_domains_today = derive_domains(ParsedRows, now)

\* The successful sends of this run
RunSends == {i \in DOMAIN attempts : attempts[i][2]}

\* C16: the successful sends of one run never exceed the per-run cap; once
\* sent_count has reached the cap no further send is attempted in the run, and
\* the loop head then ends the run with the run limit as the reason.
C16_PerRunLimitRespected ==
    /\ [](/\ sent_count <= limit
          /\ Cardinality(RunSends) <= limit
          /\ AboutToSend => sent_count < limit
          /\ sent_count >= limit => pc \in {"after", "wait_sched", "conn_sched", "loop", "done"})
    /\ [][(pc = "loop" /\ sent_count >= limit /\ pc' \notin {"loop", "off"})
             => (pc' = "done" /\ reason' = "limit")]_vars

\* C16 witness: a run has ended at its per-run cap with the daily cap not
\* reached.
C16_Witness ==
    /\ pc = "done" /\ reason = "limit"
    /\ sent_count = limit /\ Cardinality(RunSends) = limit
    /\ today_total < MAX_PER_DAY_TOTAL

\* The log, the set of logged addresses and the counters keep their values
StoreAndCountersUnchanged ==
    UNCHANGED <<sent_log, already, today_total, hour_total, used_domains_today,
                sent_count>>
\* A step of the send attempt (lines 500-518), and whether it succeeded
SendStep == pc = "send" /\ pc' = "after"
SendSucceeds == SendStep /\ attempts'[Len(attempts')][2]

\* C17: only a successful send to a list recipient appends to the log, and it
\* appends exactly one record and adds one to today_total, hour_total, the
\* domain's count and sent_count; a failed attempt, a probe send (t) and a
\* blind-copy toggle (o) leave the log, the logged set and these counters
\* unchanged: a failure changes only failed_once and last_domain, a toggle only
\* bcc_on.
C17_FrameEffects ==
    [][/\ sent_log' /= sent_log => SendSucceeds
       /\ SendSucceeds =>
             /\ sent_log' = Append(sent_log, <<Lower(addr), utc_now_iso(now, tz)>>)
             /\ already' = already \cup {Lower(addr)}
             /\ today_total' = today_total + 1
             /\ hour_total' = hour_total + 1
             /\ used_domains_today' =
                    [used_domains_today EXCEPT ![domain_of(addr)] = @ + 1]
             /\ sent_count' = sent_count + 1
       /\ (SendStep /\ ~SendSucceeds) =>
             /\ StoreAndCountersUnchanged
             /\ failed_once' = failed_once \cup {Lower(addr)}
             /\ last_domain' = domain_of(addr)
             /\ UNCHANGED bcc_on
       /\ waitKey' = "t" =>
             /\ StoreAndCountersUnchanged
             /\ UNCHANGED <<bcc_on, failed_once, last_domain, pc>>
       /\ (bcc_on' /= bcc_on /\ pc' /= "off") =>
             /\ StoreAndCountersUnchanged
             /\ UNCHANGED <<failed_once, last_domain, pc>>]_vars

\* C17 witness: in a run with a failed and a successful attempt behind it, the
\* operator has switched the blind copy off and has just asked for a probe
\* send; the log holds the one record of the success.
C17_Witness ==
    /\ waitKey = "t" /\ ~bcc_on
    /\ \E i, j \in DOMAIN attempts : ~attempts[i][2] /\ attempts[j][2]
    /\ Len(sent_log) = 1 /\ sent_count = 1

\* C18: at every hourly-cap check of the loop (single writer), hour_total
\* equals the number of log records in the current wall-clock hour, also after
\* the clock has rolled over into a new hour during a scheduled wait, so the
\* loop blocks only when the current hour really holds hourly_cap sends.
C18_HourTotalIsCurrentHour ==
    pc = "loop" =>
        /\ hour_total = count_this_hour(sent_log, now, tz)
        /\ hour_total >= MAX_PER_HOUR_TOTAL =>
               Cardinality({i \in DOMAIN sent_log :
                               sent_log[i][2] = utc_now_iso(now, tz)})
               >= MAX_PER_HOUR_TOTAL

\* main() is running and has not reached its end
Running == pc \notin {"off", "done"}
\* The clock of the model has reached its last hour
ClockAtBound == next_hour(now) > MaxTime
\* The run is over, or the model's clock can advance no further
RunEnded == ~Running \/ ClockAtBound
\* The distinct recipients of the list
Recipients == {Lower(emails[i]) : i \in DOMAIN emails}

\* C20: with a finite list, a clock that keeps advancing and a network that
\* comes back whenever it is lost, every run reaches a terminal state: every
\* attempt, successful or not, removes its recipient from those eligible in
\* the run, so a run makes no more attempts than the list has distinct
\* recipients.
C20_EveryRunTerminates ==
    /\ [](/\ Len(attempts) <= Cardinality(Recipients)
          /\ \A i \in DOMAIN attempts : attempts[i][1] \in already \cup failed_once
          /\ \A i, j \in DOMAIN attempts : attempts[i][1] = attempts[j][1] => i = j
          /\ AboutToSend => addr \notin already \cup failed_once)
    /\ (Running ~> RunEnded)

\* C20 witness: a run has ended, before the last hour of the clock, after an
\* attempt on every distinct recipient of its list.
C20_Witness ==
    /\ pc = "done" /\ reason = "exhausted" /\ ~ClockAtBound
    /\ Len(attempts) = Cardinality(Recipients)

====
